---- MODULE Spec2Model ----
(***************************************************************************)
(* RwMem-Migen: a read/write memory (Mem, the slave) behind a small        *)
(* request/acknowledge interface, and the Master whose generator routines  *)
(* write() and read() drive it cycle by cycle in the Migen simulator.      *)
(*                                                                         *)
(* One clock edge of the simulator is: the synchronous statements are      *)
(* evaluated on the values before the edge, the generator runs up to its   *)
(* next bare `yield` (its reads see the values before the edge, its        *)
(* assignments are only scheduled), then everything is committed and the   *)
(* combinational statements settle.  An operation that returns hands       *)
(* control back to its caller inside the same edge, so the caller's next   *)
(* operation starts before anything is committed.                          *)
(***************************************************************************)
EXTENDS Integers, Sequences, FiniteSets, TLC

\* Bounds of the model: the configurations that are explored.
MaxMemSize == 3
MaxDataWidth == 3

\* Memory.get_port declares its address as Signal(max=depth), which needs
\* depth >= 2.
MinMemSize == 2

\* The assertion off by one: assert timeout <= 20.
TimeoutLimitLate == 20 + 1

\* assert timeout < 20
TimeoutLimit == 20

VARIABLES
    mem_size,       \* configuration: number of words
    data_width,     \* configuration: bits per word
    init,           \* configuration: the initialization list (<<>> when omitted)
    slave_kind,     \* "Mem", or "Silent": a slave that never answers
    master,         \* the Master's signals
    slave,          \* the Mem's signals and registers
    storage,        \* the words of the Memory
    pending,        \* assignments the generator has scheduled for this edge
    pc,             \* where the generator is suspended
    timeout,        \* the poll counter of the operation in flight
    op,             \* the operation in flight, or the one that returned last
    ret,            \* what op returned, once it has
    prev,           \* the operation just before op with what it returned,
                    \* kept when op is a read of the same address
    value_written,  \* the harness's dictionary address -> last value written,
                    \* kept while every write is to an address in range
    writes          \* "none", "inrange" or "any": the writes issued so far

vars == << mem_size, data_width, init, slave_kind, master, slave, storage,
           pending, pc, timeout, op, ret, prev, value_written, writes >>

config == << mem_size, data_width, init, slave_kind >>

----------------------------------------------------------------------------
\* Signals

\* An assignment to a Signal keeps the low nbits bits of the value.
Truncate(value, nbits) == value % (2 ^ nbits)

\* bits_for(n), n >= 1: the bits an unsigned n needs.
RECURSIVE bits_for(_)
bits_for(n) == IF n <= 1 THEN 1 ELSE 1 + bits_for(n \div 2)

\* Width of the Master's m2s_data, m2s_addr and s2m_data: Signal(mem_size).
MasterWidth == mem_size

\* Width of the Mem's m2s_addr, m2s_data and s2m_data: Signal(data_width).
SlaveWidth == data_width

\* Width of the memory port's adr: Signal(max=depth).
PortAdrWidth == bits_for(mem_size - 1)

\* Indexing the memory's Array by a signal: an index past the end selects the
\* last word.
ArrayIndex(key) == IF key < mem_size - 1 THEN key ELSE mem_size - 1

\* Memory(data_width, mem_size, init=init): the listed words, then zeros.
MemoryInit(list, size) ==
    [i \in 0..(size - 1) |-> IF i < Len(list) THEN list[i + 1] ELSE 0]

----------------------------------------------------------------------------
\* Mem: the combinational and the synchronous statements

\* The comparison off by one: m2s_addr > mem_size.
ErrorLogicStrict(addr) == IF addr > mem_size THEN 1 ELSE 0

\* s2m_error: set when the address is not below the memory size.
ErrorLogic(addr) == IF addr >= mem_size THEN 1 ELSE 0

\* The write enable tested the wrong way round: mem_ports.we == 1.
AckReInverted(addr_new, addr, we) == IF addr_new = addr /\ we = 1 THEN 1 ELSE 0

\* ack_re: the address is the one of the previous cycle and no write is asked.
AckRe(addr_new, addr, we) == IF addr_new = addr /\ we = 0 THEN 1 ELSE 0

\* The acknowledge without the error gate: ack_re | ack_we.
OutputAckUngated(ack_re, ack_we, error) ==
    IF ack_re = 1 \/ ack_we = 1 THEN 1 ELSE 0

\* s2m_ack: a read or a write acknowledge, and zero on error.
OutputAck(ack_re, ack_we, error) ==
    IF (ack_re = 1 \/ ack_we = 1) /\ error = 0 THEN 1 ELSE 0

\* ack_we after the edge: the write enable before it.
AckWeSync(we) == we

\* The memory port's address: the Mem's address on the port's width.
PortAdr(addr) == Truncate(addr, PortAdrWidth)

\* The write port: with we asserted the addressed word takes dat_w.
WritePort(st, we, adr, dat_w) ==
    IF we = 1 THEN [st EXCEPT ![ArrayIndex(adr)] = dat_w] ELSE st

\* The read port (write-first, synchronous): the word at the registered address.
ReadPort(st, adr_reg) == st[ArrayIndex(adr_reg)]

\* The address register never loaded: addr_new.eq(m2s_addr) left out.
SlaveSyncStale(sl) ==
    [ ack_we     |-> AckWeSync(sl.m2s_we),
      addr_new   |-> sl.addr_new,
      ack_re_reg |-> sl.ack_re,
      adr_reg    |-> PortAdr(sl.m2s_addr) ]

\* The Mem's registers after an edge, from its signals before the edge.
SlaveSync(sl) ==
    [ ack_we     |-> AckWeSync(sl.m2s_we),
      addr_new   |-> sl.m2s_addr,
      ack_re_reg |-> sl.ack_re,
      adr_reg    |-> PortAdr(sl.m2s_addr) ]

\* The acknowledge taken from the registered read acknowledge:
\* (ack_re_reg | ack_we) & ~s2m_error.
SlaveCombRegistered(kind, m, regs, st) ==
    LET addr   == Truncate(m.m2s_addr, SlaveWidth)
        data   == Truncate(m.m2s_data, SlaveWidth)
        we     == m.m2s_we
        ack_re == AckRe(regs.addr_new, addr, we)
        error  == ErrorLogic(addr)
    IN  [ m2s_addr   |-> addr,
          m2s_data   |-> data,
          m2s_we     |-> we,
          s2m_data   |-> IF kind = "Mem" THEN ReadPort(st, regs.adr_reg) ELSE 0,
          s2m_ack    |-> IF kind = "Mem"
                         THEN OutputAck(regs.ack_re_reg, regs.ack_we, error)
                         ELSE 0,
          s2m_error  |-> IF kind = "Mem" THEN error ELSE 0,
          ack_we     |-> regs.ack_we,
          ack_re     |-> ack_re,
          addr_new   |-> regs.addr_new,
          ack_re_reg |-> regs.ack_re_reg,
          adr_reg    |-> regs.adr_reg ]

\* The Mem's signals once the combinational statements have settled, from the
\* Master's outputs m, the Mem's registers regs and the memory st.
SlaveComb(kind, m, regs, st) ==
    LET addr   == Truncate(m.m2s_addr, SlaveWidth)
        data   == Truncate(m.m2s_data, SlaveWidth)
        we     == m.m2s_we
        ack_re == AckRe(regs.addr_new, addr, we)
        error  == ErrorLogic(addr)
    IN  [ m2s_addr   |-> addr,
          m2s_data   |-> data,
          m2s_we     |-> we,
          s2m_data   |-> IF kind = "Mem" THEN ReadPort(st, regs.adr_reg) ELSE 0,
          s2m_ack    |-> IF kind = "Mem"
                         THEN OutputAck(ack_re, regs.ack_we, error) ELSE 0,
          s2m_error  |-> IF kind = "Mem" THEN error ELSE 0,
          ack_we     |-> regs.ack_we,
          ack_re     |-> ack_re,
          addr_new   |-> regs.addr_new,
          ack_re_reg |-> regs.ack_re_reg,
          adr_reg    |-> regs.adr_reg ]

----------------------------------------------------------------------------
\* Master: its signals and the wiring to the slave

\* The Master's inputs take the slave's outputs, on the Master's widths.
MasterComb(m, sl) ==
    [ m2s_we    |-> m.m2s_we,
      m2s_data  |-> m.m2s_data,
      m2s_addr  |-> m.m2s_addr,
      s2m_ack   |-> sl.s2m_ack,
      s2m_data  |-> Truncate(sl.s2m_data, MasterWidth),
      s2m_error |-> sl.s2m_error ]

\* No assignment scheduled.
NoPending == [s \in {} |-> 0]

\* yield sig.eq(value): schedule the assignment; a later one to the same
\* signal replaces an earlier one.
Schedule(p, sig, value) ==
    [s \in DOMAIN p \cup {sig} |-> IF s = sig THEN value ELSE p[s]]

\* The Master's outputs after the scheduled assignments p are committed.
Commit(m, p) ==
    [s \in DOMAIN m |->
        IF s \in DOMAIN p THEN Truncate(p[s], IF s = "m2s_we" THEN 1 ELSE MasterWidth)
        ELSE m[s]]

\* One clock edge with the generator's scheduled assignments p.
Tick(p) ==
    LET regs == SlaveSync(slave)
        st   == WritePort(storage, slave.m2s_we, PortAdr(slave.m2s_addr),
                          slave.m2s_data)
        m    == Commit(master, p)
        sl   == SlaveComb(slave_kind, m, regs, st)
    IN  /\ storage' = st
        /\ slave' = sl
        /\ master' = MasterComb(m, sl)
        /\ pending' = NoPending

\* The condition that ends the poll loop of write and read.
PollDone == master.s2m_ack = 1 \/ master.s2m_error = 1

\* value = yield self.s2m_data; error = yield self.s2m_error; return
Return ==
    /\ ret' = [value |-> master.s2m_data, error |-> master.s2m_error]
    /\ pc' = "harness"

----------------------------------------------------------------------------
\* Inputs

Configs ==
    { c \in (MinMemSize..MaxMemSize) \X (1..MaxDataWidth) : c[1] <= 2 ^ c[2] }

\* The words a write is given: the smallest and the largest of the width.
DataValues == {0, 2 ^ data_width - 1}

\* The addresses an operation is given, all of them data_width-bit values:
\* the first two and the last one in range, the first one out of range, the
\* first one that does not fit in mem_size bits, and the largest.
Addresses ==
    { a \in 0..(2 ^ data_width - 1) :
        \/ a <= 1
        \/ a = mem_size - 1
        \/ a = mem_size
        \/ a = 2 ^ mem_size
        \/ a = 2 ^ data_width - 1 }

\* The initialization lists: omitted, or one word (shorter than the memory).
InitLists(size, width) == { << >>, << 2 ^ width - 1 >> }

\* The harness's dictionary before any write.
NoneWritten == [a \in {} |-> 0]

NoOp == [kind |-> "none", adr |-> 0, dat |-> 0]

NoRet == [value |-> 0, error |-> 0]

NoPrev == [kind |-> "none", dat |-> 0, value |-> 0, error |-> 0]


----------------------------------------------------------------------------
Init ==
    /\ \E c \in Configs :
          /\ mem_size = c[1]
          /\ data_width = c[2]
          /\ init \in InitLists(c[1], c[2])
    /\ slave_kind \in {"Mem", "Silent"}
    /\ storage = MemoryInit(init, mem_size)
    /\ LET m0 == [m2s_we |-> 0, m2s_data |-> 0, m2s_addr |-> 0,
                  s2m_ack |-> 0, s2m_data |-> 0, s2m_error |-> 0]
           r0 == [ack_we |-> 0, addr_new |-> 0, ack_re_reg |-> 0, adr_reg |-> 0]
           s0 == SlaveComb(slave_kind, m0, r0, storage)
       IN  /\ slave = s0
           /\ master = MasterComb(m0, s0)
    /\ pending = NoPending
    /\ pc = "harness"
    /\ timeout = 0
    /\ op = NoOp
    /\ ret = NoRet
    /\ prev = NoPrev
    /\ value_written = NoneWritten
    /\ writes = "none"

\* Master.write up to its first bare yield.
StartWrite(adr, dat) ==
    /\ pc = "harness"
    /\ timeout' = 0
    /\ Tick(Schedule(Schedule(Schedule(pending, "m2s_addr", adr),
                              "m2s_data", dat), "m2s_we", 1))
    /\ pc' = "w171"
    /\ ret' = NoRet
    /\ prev' = NoPrev
    /\ op' = [kind |-> "write", adr |-> adr, dat |-> dat]
    /\ writes' = IF adr < mem_size /\ writes # "any" THEN "inrange" ELSE "any"
    /\ value_written' =
          IF writes' = "inrange"
          THEN [a \in DOMAIN value_written \cup {adr} |->
                   IF a = adr THEN dat ELSE value_written[a]]
          ELSE NoneWritten
    /\ UNCHANGED config

\* The poll loop of write and read, entered with the assignments p scheduled:
\* return when acknowledged or in error, otherwise count and wait an edge.
Poll(p, next) ==
    IF PollDone
    THEN /\ Return
         /\ pending' = p
         /\ UNCHANGED << master, slave, storage, timeout >>
    ELSE /\ timeout' = timeout + 1
         /\ IF timeout + 1 < TimeoutLimit
            THEN /\ Tick(p)
                 /\ pc' = next
            ELSE /\ pc' = "failed"
                 /\ pending' = p
                 /\ UNCHANGED << master, slave, storage >>
         /\ UNCHANGED ret

\* Master.write from its first yield: clear we, then poll.
WriteResume ==
    /\ pc = "w171"
    /\ Poll(Schedule(pending, "m2s_we", 0), "w176")
    /\ UNCHANGED << config, op, prev, value_written, writes >>

\* Master.write from the yield of its poll loop.
WritePoll ==
    /\ pc = "w176"
    /\ Poll(pending, "w176")
    /\ UNCHANGED << config, op, prev, value_written, writes >>

\* Master.read up to its first bare yield.
StartRead(adr) ==
    /\ pc = "harness"
    /\ timeout' = 0
    /\ Tick(Schedule(pending, "m2s_addr", adr))
    /\ pc' = "r185"
    /\ ret' = NoRet
    /\ prev' = IF op.kind # "none" /\ op.adr = adr
               THEN [kind |-> op.kind, dat |-> op.dat,
                     value |-> ret.value, error |-> ret.error]
               ELSE NoPrev
    /\ op' = [kind |-> "read", adr |-> adr, dat |-> 0]
    /\ UNCHANGED << config, value_written, writes >>

\* Master.read from its first yield or from the yield of its poll loop.
ReadPoll ==
    /\ pc \in {"r185", "r189"}
    /\ Poll(pending, "r189")
    /\ UNCHANGED << config, op, prev, value_written, writes >>

\* The harness lets one clock cycle pass between two operations.
HarnessYield ==
    /\ pc = "harness"
    /\ Tick(pending)
    /\ UNCHANGED << config, pc, timeout, op, ret, prev, value_written, writes >>

Next ==
    \/ \E adr \in Addresses, dat \in DataValues : StartWrite(adr, dat)
    \/ WriteResume
    \/ WritePoll
    \/ \E adr \in Addresses : StartRead(adr)
    \/ ReadPoll
    \/ HarnessYield

Spec == Init /\ [][Next]_vars

\* The simulator resumes a suspended generator at every clock edge.
FairSpec == Spec /\ WF_vars(WriteResume) /\ WF_vars(WritePoll) /\ WF_vars(ReadPoll)

----------------------------------------------------------------------------
\* Properties

IsMem == slave_kind = "Mem"

\* An operation has returned to the harness (ret is what it returned).
Returned == pc = "harness" /\ op.kind # "none"

\* An operation is suspended at one of its yields.
InFlight == pc \in {"w171", "w176", "r185", "r189"}

\* The step is a clock edge: the generator reached a yield.
Ticked == InFlight' \/ (pc = "harness" /\ pc' = "harness")

\* C1: round trip. A write to an address in range returns (value, false),
\* and the read of that address issued next returns (value, false) too.
C1_RoundTrip ==
    /\ (IsMem /\ Returned /\ op.kind = "write" /\ op.adr < mem_size)
          => ret = [value |-> op.dat, error |-> 0]
    /\ (IsMem /\ Returned /\ op.kind = "read" /\ op.adr < mem_size
              /\ prev.kind = "write")
          => ret = [value |-> prev.dat, error |-> 0]

\* C2: last write wins. After writes that were all to addresses in range, the
\* read of a written address returns the value written to it last, and no
\* error.
C2_LastWriteWins ==
    (IsMem /\ Returned /\ op.kind = "read" /\ op.adr \in DOMAIN value_written)
        => ret = [value |-> value_written[op.adr], error |-> 0]

\* C3: range check. A read of an address that is not below mem_size returns
\* error = true.
C3_RangeCheck ==
    (IsMem /\ Returned /\ op.kind = "read" /\ op.adr >= mem_size)
        => ret.error = 1

\* C4: invariant I1. The Mem's error output is asserted exactly when its
\* request address is not below mem_size, whether or not write enable is
\* asserted and whichever operation is in progress.
C4_ErrorIffOutOfRange ==
    IsMem => (slave.s2m_error = 1 <=> slave.m2s_addr >= mem_size)

\* An error is reported in the request cycle of a write.
C4_Witness ==
    IsMem /\ pc = "w171" /\ slave.m2s_we = 1 /\ slave.m2s_addr >= mem_size
          /\ slave.s2m_error = 1

\* C5: invariant I2. ack and error are never asserted together, and ack is
\* (ack_re OR ack_we) AND NOT error in every cycle.
C5_AckExcludesError ==
    IsMem =>
        /\ ~(slave.s2m_ack = 1 /\ slave.s2m_error = 1)
        /\ slave.s2m_ack = 1 <=>
              ((slave.ack_re = 1 \/ slave.ack_we = 1) /\ slave.s2m_error = 0)

\* A write acknowledge is pending while the address is out of range: the
\* error keeps ack low.
C5_Witness ==
    IsMem /\ slave.ack_we = 1 /\ slave.s2m_error = 1 /\ slave.s2m_ack = 0

\* C6: no timeout with the Mem. The poll counter of a write or a read never
\* reaches 20, the timeout assertion never fires, and every operation in
\* flight eventually returns.
C6_NoTimeout ==
    /\ [](IsMem => (timeout < 20 /\ pc # "failed"))
    /\ ((IsMem /\ InFlight) ~> (pc = "harness"))

\* A read of an address in range found neither ack nor error at its first
\* poll, waited one cycle and returned.
C6_Witness ==
    IsMem /\ Returned /\ op.kind = "read" /\ op.adr < mem_size /\ timeout = 1

\* C7: timeout bound. With a slave that never asserts ack or error, write and
\* read never return a result, and they fail exactly when the poll has found
\* both low for the 20th time.
C7_TimeoutBound ==
    (~IsMem) =>
        /\ ~Returned
        /\ timeout <= 20
        /\ pc = "failed" <=> timeout = 20

\* A write to the silent slave has failed at its 20th poll.
C7_Witness ==
    ~IsMem /\ pc = "failed" /\ op.kind = "write" /\ timeout = 20

\* C8: idempotent read. A read of an address in range that follows a read of
\* the same address returns what that read returned, and no error.
C8_IdempotentRead ==
    (IsMem /\ Returned /\ op.kind = "read" /\ op.adr < mem_size
           /\ prev.kind = "read")
        => ret = [value |-> prev.value, error |-> 0]

\* C9: initialization. Before any write, the read of an address in range
\* returns the word the initialization list gives for it, or zero when the
\* list has none, and no error.
C9_Initialization ==
    (IsMem /\ Returned /\ writes = "none" /\ op.kind = "read"
           /\ op.adr < mem_size)
        => ret = [value |-> IF op.adr < Len(init) THEN init[op.adr + 1] ELSE 0,
                  error |-> 0]

\* C10: write acknowledge timing. ack_we after an edge is the write enable
\* before it; in the cycle in which a write is requested no acknowledge is
\* reported; one cycle later a write to an address in range is acknowledged.
C10_WriteAckTiming ==
    /\ [][ (IsMem /\ Ticked) => slave'.ack_we = slave.m2s_we ]_vars
    /\ [](IsMem /\ pc = "w171" => slave.s2m_ack = 0)
    /\ [](IsMem /\ pc = "w176" /\ slave.m2s_addr < mem_size => slave.s2m_ack = 1)

\* C11: read acknowledge timing. In a cycle whose request address differs
\* from the address of the previous cycle and whose write enable is low, ack
\* is not asserted, whatever operation came before.
C11_ReadAckTiming ==
    (IsMem /\ slave.m2s_addr # slave.addr_new /\ slave.m2s_we = 0)
        => slave.s2m_ack = 0

\* C12: ungated write commit. At every clock edge with write enable asserted
\* the word the address selects takes the data, also for an address that is
\* not below mem_size; a write to such an address returns error = true.
C12_UngatedWriteCommit ==
    /\ [][ (IsMem /\ Ticked /\ slave.m2s_we = 1)
              => storage'[ArrayIndex(PortAdr(slave.m2s_addr))] = slave.m2s_data
         ]_vars
    /\ []((IsMem /\ Returned /\ op.kind = "write" /\ op.adr >= mem_size)
              => ret.error = 1)

\* C13: level read acknowledge. After every clock edge that leaves the request
\* address as it was, in range, with the write enable low, ack is asserted:
\* from the second cycle on for which the address is held, and in every cycle
\* after it for as long as the address is held and no write is asked.
C13_LevelReadAck ==
    [][ (IsMem /\ Ticked /\ slave'.m2s_addr = slave.m2s_addr
               /\ slave'.m2s_addr < mem_size /\ slave'.m2s_we = 0)
           => slave'.s2m_ack = 1
      ]_vars

\* After a read of an address other than 0 the harness lets cycles pass: the
\* read acknowledge was asserted in the previous cycle and still is.
C13_Witness ==
    /\ IsMem /\ Returned /\ op.kind = "read"
    /\ slave.m2s_addr = op.adr /\ op.adr > 0 /\ op.adr < mem_size
    /\ slave.m2s_we = 0 /\ slave.ack_we = 0
    /\ slave.ack_re_reg = 1 /\ slave.ack_re = 1 /\ slave.s2m_ack = 1

\* A step of a read operation: from the call of read to its return.
ReadStep == op'.kind = "read" /\ (pc # "harness" \/ pc' # "harness")

\* C14: Store frame. The Store changes only at a clock edge before which the
\* write enable is asserted, and no step of a read operation, from its call to
\* its return, changes a word of the Store, whatever the address.
C14_StoreFrame ==
    /\ [][ (IsMem /\ storage' # storage) => (Ticked /\ slave.m2s_we = 1) ]_vars
    /\ [][ (IsMem /\ ReadStep) => storage' = storage ]_vars

\* C15: request width. In the first cycle of a write the responder sees the
\* address and the data write was called with, in the first cycle of a read
\* the address read was called with, and the value a read returns is the
\* responder's read data of that cycle.
C15_RequestWidth ==
    /\ [](pc = "w171" => (slave.m2s_addr = op.adr /\ slave.m2s_data = op.dat))
    /\ [](pc = "r185" => slave.m2s_addr = op.adr)
    /\ [][ (op.kind = "read" /\ pc # "harness" /\ pc' = "harness")
              => ret'.value = slave.s2m_data ]_vars

\* C16: when a read of an address in range returns, the value it returns is
\* the Store word at that address at that moment and the read acknowledge for
\* that address is asserted, whatever operations came before.
C16_ReadReturnsWord ==
    [][ (IsMem /\ op.kind = "read" /\ op.adr < mem_size
               /\ pc # "harness" /\ pc' = "harness")
           => /\ ret'.value = storage[op.adr]
              /\ slave.m2s_addr = op.adr
              /\ slave.ack_re = 1
      ]_vars

\* C17: write enable. It is asserted in the first cycle of a write and in no
\* later cycle of it, in no cycle of a read, and it is deasserted when write
\* or read returns, also when write returns early on error.
C17_WriteEnablePulse ==
    /\ (pc = "w171" => master.m2s_we = 1)
    /\ (pc \in {"w176", "r185", "r189"} => master.m2s_we = 0)
    /\ (Returned => master.m2s_we = 0)

\* A step of a write operation: from the call of write to its return.
WriteStep == op'.kind = "write" /\ (pc # "harness" \/ pc' # "harness")

\* C18: write frame. No step of a write to an address in range, from its call
\* to its return, changes a Store word other than the one at that address.
C18_WriteFrame ==
    [][ (IsMem /\ WriteStep /\ op'.adr < mem_size)
           => \A a \in DOMAIN storage : a # op'.adr => storage'[a] = storage[a]
      ]_vars

\* The Mem's signals in the current cycle had ack_re_reg the value b.
WithAckReReg(b) ==
    SlaveComb(slave_kind, master,
              [ ack_we     |-> slave.ack_we,
                addr_new   |-> slave.addr_new,
                ack_re_reg |-> b,
                adr_reg    |-> slave.adr_reg ],
              storage)

\* C19: dead state. In every cycle, whatever value ack_re_reg holds, the Mem
\* produces the same ack, error and read data, and loads the same values
\* into its other registers and the same word into the Store at the next
\* edge: a Mem without the register behaves the same in every cycle.
C19_DeadRegister ==
    IsMem =>
        \A b \in {0, 1} :
            LET sl == WithAckReReg(b)
            IN  /\ sl.s2m_ack = slave.s2m_ack
                /\ sl.s2m_error = slave.s2m_error
                /\ sl.s2m_data = slave.s2m_data
                /\ SlaveSync(sl).ack_we = SlaveSync(slave).ack_we
                /\ SlaveSync(sl).addr_new = SlaveSync(slave).addr_new
                /\ SlaveSync(sl).adr_reg = SlaveSync(slave).adr_reg
                /\ WritePort(storage, sl.m2s_we, PortAdr(sl.m2s_addr), sl.m2s_data)
                     = WritePort(storage, slave.m2s_we, PortAdr(slave.m2s_addr),
                                 slave.m2s_data)

\* The first cycle of a request for an address in range that follows an
\* acknowledged cycle: ack_re_reg is set while ack_re and ack are not.
C19_Witness ==
    /\ IsMem /\ InFlight
    /\ slave.ack_re_reg = 1 /\ slave.ack_re = 0 /\ slave.ack_we = 0
    /\ slave.s2m_error = 0 /\ slave.s2m_ack = 0

====
